---- MODULE Spec2Model ----
(***************************************************************************)
(* HoeffdingTreeClassifier (river/tree/hoeffding_tree_classifier.py):      *)
(* the tree engine's state, its learn_one / predict_proba_one handlers,    *)
(* the split attempt and the configuration setters.                        *)
(*                                                                         *)
(* The tree is a function from positions (paths of branch indices from     *)
(* the root, <<>> being the root) to node records.  Every node object      *)
(* carries the identity (uid) it got when it was created, so that          *)
(* "the same node" and "the same position" are different things.           *)
(* Merits, the Hoeffding bound and the tie threshold are floats in the     *)
(* program; here they are small integers on a common scale.                *)
(***************************************************************************)
EXTENDS Integers, Sequences, FiniteSets, TLC

VARIABLES
    status,                      \* "none" | "ready" | "failed": the constructor's outcome
    split_criterion,             \* self._split_criterion
    leaf_prediction,             \* self._leaf_prediction
    attribute_observer,          \* self.attribute_observer
    cfg,                         \* grace_period, max_depth, tie_threshold, remove_poor_attrs, memory_estimate_period
    tree_root,                   \* self._tree_root and everything reachable from it
    classes,                     \* self.classes
    train_weight_seen_by_model,  \* self._train_weight_seen_by_model
    n_active_leaves,             \* self._n_active_leaves
    n_inactive_leaves,           \* self._n_inactive_leaves
    n_decision_nodes,            \* self._n_decision_nodes
    growth_allowed,              \* self._growth_allowed
    next_uid,                    \* identity given to the next node object created
    last                         \* what the last call was given, did and returned

vars == <<status, split_criterion, leaf_prediction, attribute_observer, cfg,
          tree_root, classes, train_weight_seen_by_model, n_active_leaves,
          n_inactive_leaves, n_decision_nodes, growth_allowed, next_uid, last>>

modelVars == <<tree_root, classes, train_weight_seen_by_model, n_active_leaves,
               n_inactive_leaves, n_decision_nodes, growth_allowed, next_uid>>

configVars == <<status, split_criterion, leaf_prediction, attribute_observer, cfg>>

---------------------------------------------------------------------------
(* Bounds and input sets *)

MaxWeight == 4

ClassLabels == {"c0", "c1"}
SampleWeights == {1, 2}
NominalValues == {0, 1, 2}
NumericValues == {0, 1}
Examples == [a : NominalValues, n : NumericValues]
Merits == {0, 1, 2}
HoeffdingBounds == {0, 1}

GracePeriods == {2}
MaxDepths == {{}, {1}, {2}}          \* {} stands for max_depth=None (no limit)
TieThresholds == {1}
MemoryEstimatePeriods == {3}

SplitCriterionInputs == {"gini", "info_gain", "hellinger", "entropy", ""}
LeafPredictionInputs == {"mc", "nb", "nba", "knn", ""}
AttributeObserverInputs == {"bst", "gaussian", "histogram", "e-bst", ""}

---------------------------------------------------------------------------
(* Class constants *)

GINI_SPLIT == "gini"
INFO_GAIN_SPLIT == "info_gain"
HELLINGER == "hellinger"
MAJORITY_CLASS == "mc"
NAIVE_BAYES == "nb"
NAIVE_BAYES_ADAPTIVE == "nba"
VALID_AO == {"bst", "gaussian", "histogram"}

---------------------------------------------------------------------------
(* Generic helpers *)

EmptyStats == << >>
EmptyTree == << >>
NoPath == <<0 - 1>>

Ext(f, k, v) == [z \in (DOMAIN f) \cup {k} |-> IF z = k THEN v ELSE f[z]]

Restrict(f, S) == [z \in (DOMAIN f) \cap S |-> f[z]]

RECURSIVE SumOver(_, _)
SumOver(f, S) ==
    IF S = {} THEN 0
    ELSE LET z == CHOOSE z \in S : TRUE IN f[z] + SumOver(f, S \ {z})

Sum(f) == SumOver(f, DOMAIN f)

RECURSIVE Pow2(_)
Pow2(k) == IF k <= 0 THEN 1 ELSE 2 * Pow2(k - 1)

MaxOf(S) == CHOOSE m \in S : \A z \in S : z <= m

MinOf(S) == CHOOSE m \in S : \A z \in S : m <= z

---------------------------------------------------------------------------
(* Split tests (river.tree._attribute_test).  A test is a record; the      *)
(* null suggestion's split_test = None is NoTest.                          *)

NoTest == [kind |-> "none", att |-> "-", threshold |-> 0, branch_mapping |-> << >>]

NumericBinaryTest == [kind |-> "numeric_binary", att |-> "n", threshold |-> 0,
                      branch_mapping |-> << >>]

NominalMultiwayTest == [kind |-> "nominal_multiway", att |-> "a", threshold |-> 0,
                        branch_mapping |-> <<0, 1>>]

RealTests == {NumericBinaryTest, NominalMultiwayTest}

\* split_test.branch_for_instance(x): the branch index of x, -1 when no branch matches
BranchForInstance(test, x) ==
    IF test.kind = "numeric_binary"
    THEN (IF x[test.att] <= test.threshold THEN 0 ELSE 1)
    ELSE IF \E i \in 1..Len(test.branch_mapping) : test.branch_mapping[i] = x[test.att]
         THEN (CHOOSE i \in 1..Len(test.branch_mapping) :
                   test.branch_mapping[i] = x[test.att]) - 1
         ELSE 0 - 1

\* split_test.max_branches(): -1 for the open-ended multi-way test
MaxBranches(test) == IF test.kind = "nominal_multiway" THEN 0 - 1 ELSE 2

\* split_test.attrs_test_depends_on()
AttrsTestDependsOn(test) == <<test.att>>

\* split_test.add_new_branch(value): the test with the branch appended
AddNewBranch(test, value) == [test EXCEPT !.branch_mapping = Append(@, value)]

\* the branch id add_new_branch returns: max(existing ids) + 1
NewBranchId(test) == Len(test.branch_mapping)

---------------------------------------------------------------------------
(* Nodes (river.tree._nodes) *)

NoNode == [kind |-> "none", uid |-> 0, depth |-> 0 - 1, stats |-> EmptyStats,
           is_active |-> FALSE, last_split_attempt_at |-> 0, disabled |-> {},
           split_test |-> NoTest, model |-> "-"]

IsLeaf(node) == node.kind = "leaf"

TotalWeight(node) == Sum(node.stats)

\* a new leaf that takes the depth of its parent
NewLearningNodeAtParentDepth(uid, initial_stats, parent) ==
    [kind |-> "leaf", uid |-> uid,
     depth |-> IF parent = NoNode THEN 0 ELSE parent.depth,
     stats |-> initial_stats, is_active |-> TRUE,
     last_split_attempt_at |-> Sum(initial_stats), disabled |-> {},
     split_test |-> NoTest,
     model |-> IF leaf_prediction = MAJORITY_CLASS THEN "LearningNodeMC"
               ELSE IF leaf_prediction = NAIVE_BAYES THEN "LearningNodeNB"
               ELSE "LearningNodeNBA"]

\* _new_learning_node(initial_stats, parent): parent is a node record or NoNode (None)
NewLearningNode(uid, initial_stats, parent) ==
    [kind |-> "leaf", uid |-> uid,
     depth |-> IF parent = NoNode THEN 0 ELSE parent.depth + 1,
     stats |-> initial_stats, is_active |-> TRUE,
     last_split_attempt_at |-> Sum(initial_stats), disabled |-> {},
     split_test |-> NoTest,
     model |-> IF leaf_prediction = MAJORITY_CLASS THEN "LearningNodeMC"
               ELSE IF leaf_prediction = NAIVE_BAYES THEN "LearningNodeNB"
               ELSE "LearningNodeNBA"]

\* _new_split_node(split_test, stats, depth)
NewSplitNode(uid, test, stats, depth) ==
    [kind |-> "split", uid |-> uid, depth |-> depth, stats |-> stats,
     is_active |-> FALSE, last_split_attempt_at |-> 0, disabled |-> {},
     split_test |-> test, model |-> "SplitNode"]

\* leaf.learn_one(x, y, sample_weight): the class statistics take the weight
LeafLearnOne(node, y, w) ==
    [node EXCEPT !.stats = Ext(@, y, (IF y \in DOMAIN @ THEN @[y] ELSE 0) + w)]

\* leaf.observed_class_distribution_is_pure(): fewer than two classes with weight
ObservedClassDistributionIsPure(node) ==
    Cardinality({c \in DOMAIN node.stats : node.stats[c] # 0}) < 2

\* leaf.predict_one(x): the class distribution the leaf answers with
LeafPredictOne(node) == node.stats

Leaves(t) == {p \in DOMAIN t : t[p].kind = "leaf"}

Splits(t) == {p \in DOMAIN t : t[p].kind = "split"}

\* FoundNode(node, parent, parent_branch), as the position of the node:
\* node = "leaf" or "split" at path, or "none" (path is then the empty child slot)
RECURSIVE Filter(_, _, _)
Filter(t, x, p) ==
    IF t[p].kind = "leaf" THEN [node |-> "leaf", path |-> p]
    ELSE LET child_index == BranchForInstance(t[p].split_test, x) IN
         IF child_index >= 0
         THEN IF Append(p, child_index) \in DOMAIN t
              THEN Filter(t, x, Append(p, child_index))
              ELSE [node |-> "none", path |-> Append(p, child_index)]
         ELSE [node |-> "split", path |-> p]

\* self._tree_root.filter_instance_to_leaf(x, None, -1)
FilterInstanceToLeaf(t, x) == Filter(t, x, << >>)

Parent(p) == IF p = << >> THEN NoPath ELSE SubSeq(p, 1, Len(p) - 1)

---------------------------------------------------------------------------
(* Split suggestions (what leaf.best_split_suggestions may return).  The    *)
(* leaf's observers and the split criterion are collaborators: the         *)
(* candidate list and the Hoeffding bound are inputs of the attempt.       *)

\* how many candidates a list has
CandidateLengths == 0..2

TestMenu == {NoTest} \cup RealTests

NumBranches(test) == IF test.kind = "nominal_multiway" THEN Len(test.branch_mapping) ELSE 2

\* the class statistics each branch of a split would start with
ResultingStats(stats, k) ==
    [i \in 1..k |-> Restrict(stats, IF i = 1 THEN {"c0"} ELSE IF i = 2 THEN {"c1"} ELSE {})]

\* AttributeSplitSuggestion(split_test, resulting_class_distributions, merit)
Suggestion(test, merit, stats) ==
    [split_test |-> test, merit |-> merit,
     resulting_class_distributions |->
         IF test = NoTest THEN <<EmptyStats>> ELSE ResultingStats(stats, NumBranches(test))]

\* a suggestion that always counts one branch
NumSplitsOne(sugg) == 1

\* suggestion.num_splits()
NumSplits(sugg) == Len(sugg.resulting_class_distributions)

TestOrders ==
    {ts \in UNION {[1..k -> TestMenu] : k \in CandidateLengths} :
        \A i, j \in DOMAIN ts : i # j => ts[i] # ts[j]}

\* every list a leaf with these statistics may hand to the split attempt
CandidateLists(stats) ==
    UNION {{[i \in DOMAIN ts |-> Suggestion(ts[i], ms[i], stats)] :
                ms \in [DOMAIN ts -> Merits]} : ts \in TestOrders}

\* list.sort(key=attrgetter('merit')): stable, ascending
RECURSIVE InsertByMerit(_, _)
InsertByMerit(sorted, e) ==
    IF sorted = << >> THEN <<e>>
    ELSE IF sorted[Len(sorted)].merit <= e.merit THEN Append(sorted, e)
    ELSE Append(InsertByMerit(SubSeq(sorted, 1, Len(sorted) - 1), e), sorted[Len(sorted)])

RECURSIVE SortByMerit(_)
SortByMerit(seq) ==
    IF seq = << >> THEN << >>
    ELSE InsertByMerit(SortByMerit(SubSeq(seq, 1, Len(seq) - 1)), seq[Len(seq)])

---------------------------------------------------------------------------
(* The model object as a record, so that the handlers are functions of it *)

Cur == [tree_root |-> tree_root, classes |-> classes,
        train_weight_seen_by_model |-> train_weight_seen_by_model,
        n_active_leaves |-> n_active_leaves, n_inactive_leaves |-> n_inactive_leaves,
        n_decision_nodes |-> n_decision_nodes, growth_allowed |-> growth_allowed,
        next_uid |-> next_uid]

ActiveLeaves(t) == {p \in Leaves(t) : t[p].is_active}

---------------------------------------------------------------------------
(* The size/memory collaborator (BaseHoeffdingTree._enforce_size_limit and  *)
(* _estimate_model_size).  What it decides is its own policy: it may leave *)
(* the tree alone, deactivate the active leaf that has seen least weight   *)
(* (keeping the counters in step), or stop the growth of the tree.         *)

CollaboratorOutcomes == {"keep", "deactivate", "stop_growth"}

Victim(t) ==
    CHOOSE p \in ActiveLeaves(t) :
        \A q \in ActiveLeaves(t) : TotalWeight(t[p]) <= TotalWeight(t[q])

EnforceSizeLimit(s, outcome) ==
    IF outcome = "stop_growth" THEN [s EXCEPT !.growth_allowed = FALSE]
    ELSE IF outcome = "deactivate" /\ ActiveLeaves(s.tree_root) # {}
    THEN [s EXCEPT !.tree_root[Victim(s.tree_root)].is_active = FALSE,
                   !.n_inactive_leaves = @ + 1,
                   !.n_active_leaves = @ - 1]
    ELSE s

EstimateModelSize(s, outcome) == EnforceSizeLimit(s, outcome)

\* the identities of the leaves the collaborator deactivated between s and t
Evicted(s, outcome) ==
    IF outcome = "deactivate" /\ ActiveLeaves(s.tree_root) # {}
    THEN {s.tree_root[Victim(s.tree_root)].uid} ELSE {}

---------------------------------------------------------------------------
(* _attempt_to_split *)

\* a decision that never forces a tie
ShouldSplitWithoutTie(best_split_suggestions, hoeffding_bound) ==
    LET len == Len(best_split_suggestions) IN
    IF len < 2 THEN len > 0
    ELSE best_split_suggestions[len].merit - best_split_suggestions[len - 1].merit
             > hoeffding_bound

\* lines 235-245: the decision; hoeffding_bound is only computed for two or more candidates
ShouldSplit(best_split_suggestions, hoeffding_bound) ==
    LET len == Len(best_split_suggestions) IN
    IF len < 2 THEN len > 0
    ELSE \/ best_split_suggestions[len].merit - best_split_suggestions[len - 1].merit
               > hoeffding_bound
         \/ hoeffding_bound < cfg.tie_threshold

\* lines 246-252: the loop calls split_test.attrs_test_depends_on() on every
\* suggestion; on the null suggestion split_test is None and the call raises
RemovePoorAttrsRaises(best_split_suggestions) ==
    /\ Len(best_split_suggestions) >= 2
    /\ cfg.remove_poor_attrs
    /\ \E i \in DOMAIN best_split_suggestions : best_split_suggestions[i].split_test = NoTest

\* lines 246-256: poor_atts
PoorAtts(best_split_suggestions, hoeffding_bound) ==
    LET len == Len(best_split_suggestions) IN
    IF len >= 2 /\ cfg.remove_poor_attrs
    THEN {AttrsTestDependsOn(best_split_suggestions[i].split_test)[1] :
            i \in {j \in 1..len :
                     /\ Len(AttrsTestDependsOn(best_split_suggestions[j].split_test)) = 1
                     /\ best_split_suggestions[len].merit - best_split_suggestions[j].merit
                          > hoeffding_bound}}
    ELSE {}

\* a pre-prune that deactivates the leaf but does not count it as inactive
PrepruneForgettingInactive(s, node) ==
    [s EXCEPT !.tree_root[node].is_active = FALSE,
              !.n_active_leaves = @ - 1]

\* lines 262-265: pre-prune, the null suggestion wins
Preprune(s, node) ==
    [s EXCEPT !.tree_root[node].is_active = FALSE,
              !.n_inactive_leaves = @ + 1,
              !.n_active_leaves = @ - 1]

\* a split that is always installed as the root
SplitPositionAlwaysRoot(parent, parent_idx) == << >>

\* lines 277-280: the new split node becomes the root when the leaf had no
\* parent, and child parent_idx of its parent otherwise
SplitPosition(parent, parent_idx) ==
    IF parent = NoPath THEN << >> ELSE Append(parent, parent_idx)

\* lines 267-280: the leaf at `node` is replaced, at branch parent_idx of parent
\* (or as the root), by a split node with one fresh leaf per branch
ExecuteSplit(s, node, parent, parent_idx, split_decision) ==
    LET leaf == s.tree_root[node]
        new_split == NewSplitNode(s.next_uid, split_decision.split_test, leaf.stats, leaf.depth)
        at == SplitPosition(parent, parent_idx)
        k == NumSplits(split_decision)
        children == {Append(at, i) : i \in 0..(k - 1)}
    IN [s EXCEPT
          !.tree_root = [q \in (DOMAIN @) \cup {at} \cup children |->
              IF q = at THEN new_split
              ELSE IF q \in children
                   THEN NewLearningNode(s.next_uid + 1 + q[Len(q)],
                            split_decision.resulting_class_distributions[q[Len(q)] + 1],
                            new_split)
                   ELSE @[q]],
          !.n_active_leaves = (@ - 1) + k,
          !.n_decision_nodes = @ + 1,
          !.next_uid = @ + 1 + k]

\* line 224 false: the leaf is pure and the attempt does nothing
Skipped(s) == [s |-> s, result |-> "pure", raised |-> FALSE, asked |-> FALSE,
               enforced |-> FALSE, evicted |-> {}, should_split |-> FALSE]

\* lines 259-283: should_split is true; s2 is the model after the pre-prune or the split
Decided(s2, split_decision, outcome) ==
    [s |-> EnforceSizeLimit(s2, outcome),
     result |-> IF split_decision.split_test = NoTest THEN "preprune" ELSE "split",
     raised |-> FALSE, asked |-> TRUE, enforced |-> TRUE,
     evicted |-> Evicted(s2, outcome), should_split |-> TRUE]

\* lines 259-280 on the model s1 that has the poor attributes disabled
Execute(s1, node, parent, parent_idx, split_decision, outcome) ==
    Decided(IF split_decision.split_test = NoTest
            THEN Preprune(s1, node)
            ELSE ExecuteSplit(s1, node, parent, parent_idx, split_decision),
            split_decision, outcome)

\* lines 235-283 with the sorted candidate list
Evaluate(s, node, parent, parent_idx, best_split_suggestions, hoeffding_bound, outcome) ==
    IF RemovePoorAttrsRaises(best_split_suggestions)
    THEN [Skipped(s) EXCEPT !.result = "error", !.raised = TRUE, !.asked = TRUE,
                            !.should_split = ShouldSplit(best_split_suggestions,
                                                         hoeffding_bound)]
    ELSE IF ~ShouldSplit(best_split_suggestions, hoeffding_bound)
    THEN [Skipped(s) EXCEPT
            !.s = [s EXCEPT !.tree_root[node].disabled =
                       @ \cup PoorAtts(best_split_suggestions, hoeffding_bound)],
            !.result = "no_split", !.asked = TRUE]
    ELSE Execute([s EXCEPT !.tree_root[node].disabled =
                       @ \cup PoorAtts(best_split_suggestions, hoeffding_bound)],
                 node, parent, parent_idx,
                 best_split_suggestions[Len(best_split_suggestions)], outcome)

\* an attempt that evaluates the suggestions of a pure leaf as well
AttemptToSplitIgnoringPurity(s, node, parent, parent_idx, cands, hoeffding_bound, outcome) ==
    Evaluate(s, node, parent, parent_idx, SortByMerit(cands), hoeffding_bound, outcome)

\* the attempt on the leaf at `node`; cands is what the leaf suggests, outcome is
\* what the collaborator decides when line 283 invokes it
AttemptToSplit(s, node, parent, parent_idx, cands, hoeffding_bound, outcome) ==
    IF ObservedClassDistributionIsPure(s.tree_root[node]) THEN Skipped(s)
    ELSE Evaluate(s, node, parent, parent_idx, SortByMerit(cands), hoeffding_bound, outcome)

\* what an attempt changed, between the model before (s) and after (t) it
AttemptEffect(s, t, node) ==
    (IF \/ DOMAIN s.tree_root # DOMAIN t.tree_root
        \/ \E q \in DOMAIN s.tree_root :
              \/ s.tree_root[q].kind # t.tree_root[q].kind
              \/ s.tree_root[q].uid # t.tree_root[q].uid
              \/ s.tree_root[q].split_test # t.tree_root[q].split_test
     THEN {"structure"} ELSE {})
    \cup (IF node \in DOMAIN t.tree_root
             /\ s.tree_root[node].is_active # t.tree_root[node].is_active
          THEN {"active"} ELSE {})
    \cup (IF node \in DOMAIN t.tree_root
             /\ s.tree_root[node].disabled # t.tree_root[node].disabled
          THEN {"observers"} ELSE {})
    \cup (IF \/ s.n_active_leaves # t.n_active_leaves
             \/ s.n_inactive_leaves # t.n_inactive_leaves
             \/ s.n_decision_nodes # t.n_decision_nodes
          THEN {"counters"} ELSE {})

---------------------------------------------------------------------------
(* learn_one *)

NoLast == [op |-> "none", y |-> "-", w |-> 0, arg |-> "-",
           raised |-> FALSE, found |-> "-", path |-> NoPath, created |-> "none",
           route |-> "-", capped |-> FALSE, attempt |-> "none", asked |-> FALSE,
           attempt_effect |-> {}, enforced |-> FALSE, estimated |-> FALSE,
           evicted |-> {}, proba |-> << >>, reached |-> NoPath]

\* a depth cap that lets a leaf at exactly max_depth through
MaxDepthReachedStrict(depth) == \E m \in cfg.max_depth : depth > m

\* line 332: leaf_node.depth >= self.max_depth (max_depth=None is no limit)
MaxDepthReached(depth) == \E m \in cfg.max_depth : depth >= m

\* lines 314-320: the class set, the weight seen, the root
Arrive(s, y, w) ==
    LET s1 == [s EXCEPT !.classes = @ \cup {y},
                        !.train_weight_seen_by_model = @ + w]
    IN IF s1.tree_root = EmptyTree
       THEN [s1 EXCEPT !.tree_root = (<< >> :> NewLearningNode(s1.next_uid, EmptyStats, NoNode)),
                       !.n_active_leaves = 1,
                       !.next_uid = @ + 1]
       ELSE s1

\* lines 324-327: routing ended at an empty child slot
FillEmptySlot(s, slot) ==
    [s EXCEPT !.tree_root = Ext(@, slot,
                  NewLearningNode(s.next_uid, EmptyStats, s.tree_root[Parent(slot)])),
              !.n_active_leaves = @ + 1,
              !.next_uid = @ + 1]

\* lines 333-335: max depth reached
DeactivateAtMaxDepth(s, leaf_node) ==
    [s EXCEPT !.tree_root[leaf_node].is_active = FALSE,
              !.n_active_leaves = @ - 1,
              !.n_inactive_leaves = @ + 1]

\* a new branch whose leaf is not counted as active
NewBranchNotCounted(s, current, x, y, w) ==
    LET test == s.tree_root[current].split_test
        leaf_node == NewLearningNode(s.next_uid, EmptyStats, s.tree_root[current])
        branch_id == NewBranchId(test)
    IN [s EXCEPT
          !.tree_root = Ext([@ EXCEPT ![current].split_test =
                                 AddNewBranch(test, x[AttrsTestDependsOn(test)[1]])],
                            Append(current, branch_id),
                            LeafLearnOne(leaf_node, y, w)),
          !.next_uid = @ + 1]

\* lines 345-353: a multi-way split node met a value it has no branch for
NewBranch(s, current, x, y, w) ==
    LET test == s.tree_root[current].split_test
        leaf_node == NewLearningNode(s.next_uid, EmptyStats, s.tree_root[current])
        branch_id == NewBranchId(test)
    IN [s EXCEPT
          !.tree_root = Ext([@ EXCEPT ![current].split_test =
                                 AddNewBranch(test, x[AttrsTestDependsOn(test)[1]])],
                            Append(current, branch_id),
                            LeafLearnOne(leaf_node, y, w)),
          !.n_active_leaves = @ + 1,
          !.next_uid = @ + 1]

\* bookkeeping that does not look at the leaf's active flag
SplitBookkeepingOfAnyLeaf(s4, leaf_node, info) ==
    IF s4.growth_allowed
    THEN IF MaxDepthReached(s4.tree_root[leaf_node].depth)
         THEN [s |-> DeactivateAtMaxDepth(s4, leaf_node), call |-> FALSE,
               info |-> [info EXCEPT !.capped = TRUE]]
         ELSE [s |-> s4,
               call |-> TotalWeight(s4.tree_root[leaf_node])
                           - s4.tree_root[leaf_node].last_split_attempt_at
                           >= cfg.grace_period,
               info |-> info]
    ELSE [s |-> s4, call |-> FALSE, info |-> info]

\* lines 331-339 on the leaf that has just learned: deactivate at the depth cap,
\* or decide whether the split attempt is called
SplitBookkeeping(s4, leaf_node, info) ==
    IF s4.growth_allowed /\ s4.tree_root[leaf_node].is_active
    THEN IF MaxDepthReached(s4.tree_root[leaf_node].depth)
         THEN [s |-> DeactivateAtMaxDepth(s4, leaf_node), call |-> FALSE,
               info |-> [info EXCEPT !.capped = TRUE]]
         ELSE [s |-> s4,
               call |-> TotalWeight(s4.tree_root[leaf_node])
                           - s4.tree_root[leaf_node].last_split_attempt_at
                           >= cfg.grace_period,
               info |-> info]
    ELSE [s |-> s4, call |-> FALSE, info |-> info]

\* lines 329-353 on the node routing ended at
AtNode(s3, leaf_node, info, x, y, w) ==
    IF IsLeaf(s3.tree_root[leaf_node])
    THEN SplitBookkeeping([s3 EXCEPT !.tree_root[leaf_node] = LeafLearnOne(@, y, w)],
                          leaf_node, [info EXCEPT !.route = "leaf"])
    ELSE IF MaxBranches(s3.tree_root[leaf_node].split_test) = 0 - 1
    THEN [s |-> NewBranch(s3, leaf_node, x, y, w), call |-> FALSE,
          info |-> [info EXCEPT !.route = "new_branch", !.created = "branch"]]
    ELSE [s |-> s3, call |-> FALSE, info |-> [info EXCEPT !.route = "ignored"]]

\* lines 322-327
Routed(s2, found_node, made_root, x, y, w) ==
    AtNode(IF found_node.node = "none" THEN FillEmptySlot(s2, found_node.path) ELSE s2,
           found_node.path,
           [NoLast EXCEPT !.op = "learn", !.y = y, !.w = w,
                          !.found = found_node.node, !.path = found_node.path,
                          !.created = IF made_root THEN "root"
                                      ELSE IF found_node.node = "none" THEN "child"
                                      ELSE "none"],
           x, y, w)

\* lines 314-339, up to the point where the split attempt is called (or not):
\* the model then, whether the attempt is called, and what the call did so far
BeforeAttempt(s0, x, y, w) ==
    Routed(Arrive(s0, y, w), FilterInstanceToLeaf(Arrive(s0, y, w).tree_root, x),
           s0.tree_root = EmptyTree, x, y, w)

\* line 342: leaf_node.last_split_attempt_at = weight_seen, on the leaf object the
\* attempt was given (it is no longer in the tree when the attempt split it)
RecordAttempt(s, leaf_node, uid, weight_seen) ==
    IF leaf_node \in DOMAIN s.tree_root /\ s.tree_root[leaf_node].uid = uid
    THEN [s EXCEPT !.tree_root[leaf_node].last_split_attempt_at = weight_seen]
    ELSE s

Commit(s, info) ==
    /\ tree_root' = s.tree_root
    /\ classes' = s.classes
    /\ train_weight_seen_by_model' = s.train_weight_seen_by_model
    /\ n_active_leaves' = s.n_active_leaves
    /\ n_inactive_leaves' = s.n_inactive_leaves
    /\ n_decision_nodes' = s.n_decision_nodes
    /\ growth_allowed' = s.growth_allowed
    /\ next_uid' = s.next_uid
    /\ last' = info
    /\ UNCHANGED configVars

\* an estimate on every call once the weight seen has reached the period
EstimateDueOnceReached(s) == s.train_weight_seen_by_model >= cfg.memory_estimate_period

\* line 355: self._train_weight_seen_by_model % self.memory_estimate_period == 0
EstimateDue(s) == s.train_weight_seen_by_model % cfg.memory_estimate_period = 0

\* lines 355-358: every way the call can end from s
Finish(s, info) ==
    IF EstimateDue(s)
    THEN {[s |-> EstimateModelSize(s, outcome),
           info |-> [info EXCEPT !.estimated = TRUE,
                                 !.evicted = @ \cup Evicted(s, outcome)]] :
             outcome \in CollaboratorOutcomes}
    ELSE {[s |-> s, info |-> info]}

\* what the call did, once the attempt r has returned or raised
AttemptInfo(b, r) ==
    [b.info EXCEPT !.attempt = r.result, !.raised = r.raised, !.asked = r.asked,
                   !.enforced = r.enforced, !.evicted = r.evicted,
                   !.attempt_effect = AttemptEffect(b.s, r.s, b.info.path)]

\* lines 340-358 after the attempt r: an error leaves the call at once
AfterAttempt(b, r) ==
    IF r.raised
    THEN {[s |-> r.s, info |-> AttemptInfo(b, r)]}
    ELSE Finish(RecordAttempt(r.s, b.info.path, b.s.tree_root[b.info.path].uid,
                              TotalWeight(b.s.tree_root[b.info.path])),
                AttemptInfo(b, r))

\* lines 340-341
Attempted(b, cands, hoeffding_bound, outcome) ==
    AfterAttempt(b, AttemptToSplit(b.s, b.info.path, Parent(b.info.path),
                                   IF b.info.path = << >> THEN 0 - 1
                                   ELSE b.info.path[Len(b.info.path)],
                                   cands, hoeffding_bound, outcome))

ResultsFrom(b) ==
    IF b.call
    THEN UNION {Attempted(b, c[1], c[2], c[3]) :
                  c \in CandidateLists(b.s.tree_root[b.info.path].stats)
                        \X HoeffdingBounds \X CollaboratorOutcomes}
    ELSE Finish(b.s, b.info)

\* learn_one from s0: the set of [s, info] the call can end in
LearnResults(s0, x, y, w) == ResultsFrom(BeforeAttempt(s0, x, y, w))

LearnOne(x, y, w) ==
    /\ status = "ready"
    /\ train_weight_seen_by_model + w <= MaxWeight
    /\ \E r \in LearnResults(Cur, x, y, w) : Commit(r.s, r.info)

---------------------------------------------------------------------------
(* predict_proba_one *)

\* river.utils.math.softmax: exp(p - max) / total, on exact fractions with the
\* exponential taken to base 2 and both terms of each fraction scaled by
\* 2^(max - min), which keeps them integers; the empty dict is returned as it is
Softmax(proba) ==
    IF DOMAIN proba = {} THEN proba
    ELSE LET lo == MinOf({proba[c] : c \in DOMAIN proba})
             e == [c \in DOMAIN proba |-> Pow2(proba[c] - lo)]
             total == Sum(e)
         IN [c \in DOMAIN proba |-> [num |-> e[c], den |-> total]]

\* line 361
ZeroProba(cls) == [c \in cls |-> 0]

\* an update that drops the classes the node has not seen
UpdateReplacing(proba, pred) == pred

\* line 368: proba.update(pred)
Update(proba, pred) ==
    [c \in (DOMAIN proba) \cup (DOMAIN pred) |-> IF c \in DOMAIN pred THEN pred[c] ELSE proba[c]]

\* a prediction that is always taken from the root
PredictNodeAlwaysRoot(s, x) == << >>

\* lines 363-366: the node the prediction is taken from
PredictNode(s, x) ==
    IF FilterInstanceToLeaf(s.tree_root, x).node = "none"
    THEN Parent(FilterInstanceToLeaf(s.tree_root, x).path)
    ELSE FilterInstanceToLeaf(s.tree_root, x).path

\* line 367
Pred(node) == IF IsLeaf(node) THEN LeafPredictOne(node) ELSE node.stats

\* a dict of floats that did not go through softmax, as exact fractions
Fractions(proba) == [c \in DOMAIN proba |-> [num |-> proba[c], den |-> 1]]

\* lines 361-370
PredictProbaOne(s, x) ==
    IF s.tree_root # EmptyTree
    THEN Softmax(Update(ZeroProba(s.classes), Pred(s.tree_root[PredictNode(s, x)])))
    ELSE Fractions(ZeroProba(s.classes))

\* a predict that creates the root when there is none
AfterPredictCreatingRoot(s, x) ==
    IF s.tree_root = EmptyTree
    THEN [s EXCEPT !.tree_root = (<< >> :> NewLearningNode(s.next_uid, EmptyStats, NoNode)),
                   !.n_active_leaves = 1,
                   !.next_uid = @ + 1]
    ELSE s

\* lines 360-370: the model after the call; proba, found_node, node and pred are
\* locals, and no field of self or of a node is assigned
AfterPredict(s, x) == s

Predict(x) ==
    /\ status = "ready"
    /\ Commit(AfterPredict(Cur, x),
              [NoLast EXCEPT !.op = "predict",
                             !.proba = PredictProbaOne(Cur, x),
                             !.reached = IF tree_root = EmptyTree THEN NoPath
                                         ELSE PredictNode(Cur, x)])

---------------------------------------------------------------------------
(* Construction and the configuration setters *)

\* a setter that stores whatever it is given
SplitCriterionUnchecked(value) == value

\* the split_criterion setter, lines 167-174: the value it stores
SplitCriterionStored(value) ==
    IF value \notin {GINI_SPLIT, INFO_GAIN_SPLIT, HELLINGER} THEN INFO_GAIN_SPLIT ELSE value

\* the leaf_prediction setter, lines 176-184: the value it stores
LeafPredictionStored(value) ==
    IF value \notin {MAJORITY_CLASS, NAIVE_BAYES, NAIVE_BAYES_ADAPTIVE}
    THEN NAIVE_BAYES_ADAPTIVE ELSE value

\* a constructor that accepts every attribute observer
ConstructorAccepts(ao) == FALSE

\* line 156: the constructor raises AttributeError
ConstructorRaises(ao) == ao \notin VALID_AO

Configs == [grace_period : GracePeriods, max_depth : MaxDepths,
            tie_threshold : TieThresholds, remove_poor_attrs : BOOLEAN,
            memory_estimate_period : MemoryEstimatePeriods]

DefaultConfig == CHOOSE c \in Configs : TRUE

Untouched ==
    /\ tree_root = EmptyTree
    /\ classes = {}
    /\ train_weight_seen_by_model = 0
    /\ n_active_leaves = 0
    /\ n_inactive_leaves = 0
    /\ n_decision_nodes = 0
    /\ growth_allowed = TRUE
    /\ next_uid = 1

\* __init__, lines 147-165
Construct(sc, lp, ao) ==
    /\ status = "none"
    /\ split_criterion' = SplitCriterionStored(sc)
    /\ leaf_prediction' = LeafPredictionStored(lp)
    /\ IF ConstructorRaises(ao)
       THEN /\ status' = "failed"
            /\ UNCHANGED attribute_observer
            /\ last' = [NoLast EXCEPT !.op = "construct", !.arg = <<sc, lp, ao>>,
                                      !.raised = TRUE]
       ELSE /\ status' = "ready"
            /\ attribute_observer' = ao
            /\ last' = [NoLast EXCEPT !.op = "construct", !.arg = <<sc, lp, ao>>]
    /\ UNCHANGED <<cfg, modelVars>>

SetSplitCriterion(value) ==
    /\ status = "ready"
    /\ split_criterion' = SplitCriterionStored(value)
    /\ last' = [NoLast EXCEPT !.op = "set_split_criterion", !.arg = value]
    /\ UNCHANGED <<status, leaf_prediction, attribute_observer, cfg, modelVars>>

SetLeafPrediction(value) ==
    /\ status = "ready"
    /\ leaf_prediction' = LeafPredictionStored(value)
    /\ last' = [NoLast EXCEPT !.op = "set_leaf_prediction", !.arg = value]
    /\ UNCHANGED <<status, split_criterion, attribute_observer, cfg, modelVars>>

---------------------------------------------------------------------------
(* Specifications *)

\* a model constructed with the default strings and any of the configurations
Init ==
    /\ status = "ready"
    /\ split_criterion = INFO_GAIN_SPLIT
    /\ leaf_prediction = NAIVE_BAYES_ADAPTIVE
    /\ attribute_observer = "gaussian"
    /\ cfg \in Configs
    /\ Untouched
    /\ last = NoLast

Learn == \E x \in Examples, y \in ClassLabels, w \in SampleWeights : LearnOne(x, y, w)

PredictAny == \E x \in Examples : Predict(x)

Next == Learn \/ PredictAny

Spec == Init /\ [][Next]_vars

\* before the constructor has run
InitConfig ==
    /\ status = "none"
    /\ split_criterion = "-"
    /\ leaf_prediction = "-"
    /\ attribute_observer = "-"
    /\ cfg = DefaultConfig
    /\ Untouched
    /\ last = NoLast

ConstructAny ==
    \E sc \in SplitCriterionInputs, lp \in LeafPredictionInputs,
       ao \in AttributeObserverInputs : Construct(sc, lp, ao)

SetSplitCriterionAny == \E value \in SplitCriterionInputs : SetSplitCriterion(value)

SetLeafPredictionAny == \E value \in LeafPredictionInputs : SetLeafPrediction(value)

NextConfig == ConstructAny \/ SetSplitCriterionAny \/ SetLeafPredictionAny

SpecConfig == InitConfig /\ [][NextConfig]_vars

---------------------------------------------------------------------------
(* The split attempt on its own: _attempt_to_split applied once to an      *)
(* active leaf of a small tree, with the candidate list and the bound it   *)
(* was given kept on record.                                               *)

\* a test on a third attribute, so that three real candidates can be ranked
OtherNumericTest == [kind |-> "numeric_binary", att |-> "m", threshold |-> 0,
                     branch_mapping |-> << >>]

AttemptTests == TestMenu \cup {OtherNumericTest}

AttemptLengths == 0..3

AttemptTestOrders ==
    {ts \in UNION {[1..k -> AttemptTests] : k \in AttemptLengths} :
        \A i, j \in DOMAIN ts : i # j => ts[i] # ts[j]}

\* every list a leaf with these statistics may hand to the split attempt
AttemptCandidateLists(stats) ==
    UNION {{[i \in DOMAIN ts |-> Suggestion(ts[i], ms[i], stats)] :
                ms \in [DOMAIN ts -> Merits]} : ts \in AttemptTestOrders}

AttemptConfigs == [grace_period : {1}, max_depth : {{}},
                   tie_threshold : TieThresholds, remove_poor_attrs : BOOLEAN,
                   memory_estimate_period : MemoryEstimatePeriods]

\* class statistics of the leaf the attempt is made on
LeafStats == {("c0" :> 1) @@ ("c1" :> 1), ("c0" :> 2), ("c0" :> 2) @@ ("c1" :> 1)}

\* the model after learn_one calls that left these statistics in a root leaf
RootLeafModel(stats) ==
    [tree_root |-> (<< >> :> [NewLearningNode(1, EmptyStats, NoNode) EXCEPT !.stats = stats]),
     classes |-> DOMAIN stats,
     train_weight_seen_by_model |-> Sum(stats),
     n_active_leaves |-> 1, n_inactive_leaves |-> 0, n_decision_nodes |-> 0,
     growth_allowed |-> TRUE, next_uid |-> 2]

\* the model after the root was split on the numeric attribute and the leaf of
\* branch 0 learned one more example, of the other class
TwoLevelModel ==
    LET stats == ("c0" :> 1) @@ ("c1" :> 1)
        split == ExecuteSplit(RootLeafModel(stats), << >>, NoPath, 0 - 1,
                              Suggestion(NumericBinaryTest, 1, stats))
    IN [split EXCEPT !.tree_root[<<0>>] = LeafLearnOne(@, "c1", 1),
                     !.train_weight_seen_by_model = @ + 1]

AttemptModels == {RootLeafModel(stats) : stats \in LeafStats} \cup {TwoLevelModel}

InitAttempt ==
    /\ status = "ready"
    /\ split_criterion = INFO_GAIN_SPLIT
    /\ leaf_prediction = NAIVE_BAYES_ADAPTIVE
    /\ attribute_observer = "gaussian"
    /\ cfg \in AttemptConfigs
    /\ \E m \in AttemptModels :
          /\ tree_root = m.tree_root
          /\ classes = m.classes
          /\ train_weight_seen_by_model = m.train_weight_seen_by_model
          /\ n_active_leaves = m.n_active_leaves
          /\ n_inactive_leaves = m.n_inactive_leaves
          /\ n_decision_nodes = m.n_decision_nodes
          /\ growth_allowed = m.growth_allowed
          /\ next_uid = m.next_uid
    /\ last = NoLast

\* what the attempt r on the leaf at node was given and did
AttemptRecord(node, cands, hoeffding_bound, r) ==
    [op |-> "attempt", path |-> node, cands |-> cands,
     hoeffding_bound |-> hoeffding_bound, attempt |-> r.result, raised |-> r.raised,
     should_split |-> r.should_split, asked |-> r.asked, enforced |-> r.enforced,
     evicted |-> r.evicted]

\* self._attempt_to_split(node, parent, parent_idx), as learn_one calls it at
\* lines 340-341 on an active leaf while growth is allowed
Attempt(node, cands, hoeffding_bound, outcome) ==
    /\ status = "ready"
    /\ growth_allowed
    /\ node \in ActiveLeaves(tree_root)
    /\ LET r == AttemptToSplit(Cur, node, Parent(node),
                               IF node = << >> THEN 0 - 1 ELSE node[Len(node)],
                               cands, hoeffding_bound, outcome)
       IN Commit(r.s, AttemptRecord(node, cands, hoeffding_bound, r))

\* one attempt in a behaviour
AttemptAny ==
    /\ last.op = "none"
    /\ \E node \in DOMAIN tree_root :
        \E cands \in AttemptCandidateLists(tree_root[node].stats),
           hoeffding_bound \in HoeffdingBounds, outcome \in CollaboratorOutcomes :
            Attempt(node, cands, hoeffding_bound, outcome)

NextAttempt == AttemptAny

SpecAttempt == InitAttempt /\ [][NextAttempt]_vars

---------------------------------------------------------------------------
(* Properties *)

\* the nodes that can be reached from the root through split nodes
Reachable(t) ==
    {p \in DOMAIN t :
        \A k \in 0..(Len(p) - 1) :
            SubSeq(p, 1, k) \in DOMAIN t /\ t[SubSeq(p, 1, k)].kind = "split"}

\* the number of leaves the collaborator deactivated during the last call
EvictedCount(l) == Cardinality(l.evicted)

\* C1: after every learn call the counters match the tree: activeLeaves +
\* inactiveLeaves is the number of Leaf nodes reachable from the root, and
\* decisionNodes is the number of Split nodes reachable from the root.
CountersMatchTree ==
    /\ n_active_leaves + n_inactive_leaves
         = Cardinality({p \in Reachable(tree_root) : tree_root[p].kind = "leaf"})
    /\ n_decision_nodes
         = Cardinality({p \in Reachable(tree_root) : tree_root[p].kind = "split"})

\* a learn call has just added a branch to a tree that has an inactive leaf
CountersMatchTreeWitness ==
    /\ last.op = "learn"
    /\ last.route = "new_branch"
    /\ n_inactive_leaves >= 1
    /\ n_decision_nodes >= 1

\* the depth cap as the claim states it: the depth is at or beyond max_depth
AtDepthCap(depth) == \E m \in cfg.max_depth : depth >= m

\* C2: while growth is enabled, a learn call that is routed to a leaf whose depth
\* is >= max_depth makes no split attempt on it; if the leaf is active the call
\* deactivates it (one leaf moves from the active to the inactive count), and if
\* it is already inactive the call moves no leaf.  Leaves the size collaborator
\* deactivates in the same call are counted apart.
DepthCapDeactivatesOnce ==
    [][last'.op = "learn" =>
         /\ (last'.attempt # "none" => ~AtDepthCap(tree_root'[last'.path].depth))
         /\ (/\ last'.found = "leaf"
             /\ last'.path \in DOMAIN tree_root
             /\ growth_allowed
             /\ AtDepthCap(tree_root[last'.path].depth))
            => /\ last'.attempt = "none"
               /\ last'.capped = tree_root[last'.path].is_active
               /\ tree_root'[last'.path].kind = "leaf"
               /\ tree_root'[last'.path].uid = tree_root[last'.path].uid
               /\ ~tree_root'[last'.path].is_active
               /\ n_active_leaves' = n_active_leaves - EvictedCount(last')
                      - (IF tree_root[last'.path].is_active THEN 1 ELSE 0)
               /\ n_inactive_leaves' = n_inactive_leaves + EvictedCount(last')
                      + (IF tree_root[last'.path].is_active THEN 1 ELSE 0)
               /\ n_decision_nodes' = n_decision_nodes]_vars

\* a learn call has just deactivated a leaf at the depth cap
DepthCapWitness ==
    /\ last.op = "learn"
    /\ last.capped
    /\ growth_allowed
    /\ AtDepthCap(tree_root[last.path].depth)
    /\ ~tree_root[last.path].is_active

\* C3: a split attempt on a leaf whose class statistics are pure asks for no
\* suggestions and changes nothing: not the structure of the tree, not the leaf's
\* active flag or attribute observers, not a counter, and the leaf stays a leaf.
\* (The statistics of the node at the attempted position are those the leaf had
\* at the attempt: a split node inherits them.)
PureLeafUntouched ==
    (/\ last.op = "learn"
     /\ last.attempt # "none"
     /\ ObservedClassDistributionIsPure(tree_root[last.path]))
    => /\ last.attempt = "pure"
       /\ ~last.asked
       /\ ~last.enforced
       /\ last.attempt_effect = {}
       /\ tree_root[last.path].kind = "leaf"
       /\ tree_root[last.path].disabled = {}
       /\ (tree_root[last.path].is_active \/ tree_root[last.path].uid \in last.evicted)

\* a split attempt has just been made on a pure leaf
PureLeafWitness ==
    /\ last.op = "learn"
    /\ last.attempt = "pure"
    /\ last.path # << >>
    /\ TotalWeight(tree_root[last.path]) >= cfg.grace_period

IsPrefix(a, b) == Len(a) <= Len(b) /\ SubSeq(b, 1, Len(a)) = a

\* C4: a split node stays where it is, the same node with the same test (a
\* multi-way test only ever gets branches appended); decisionNodes never
\* decreases; a call creates one split node when it executes a split and none
\* otherwise; no node is found at another position later.
SplitsIrrevocable ==
    [][/\ \A p \in Splits(tree_root) :
             /\ p \in Splits(tree_root')
             /\ tree_root'[p].uid = tree_root[p].uid
             /\ tree_root'[p].split_test.kind = tree_root[p].split_test.kind
             /\ tree_root'[p].split_test.att = tree_root[p].split_test.att
             /\ tree_root'[p].split_test.threshold = tree_root[p].split_test.threshold
             /\ IsPrefix(tree_root[p].split_test.branch_mapping,
                         tree_root'[p].split_test.branch_mapping)
       /\ n_decision_nodes' >= n_decision_nodes
       /\ Cardinality(Splits(tree_root')) - Cardinality(Splits(tree_root))
            = (IF last'.op = "learn" /\ last'.attempt = "split" THEN 1 ELSE 0)
       /\ \A p \in DOMAIN tree_root : \A q \in DOMAIN tree_root' :
             tree_root'[q].uid = tree_root[p].uid => q = p]_vars

\* a split below an older split, which is still in its place
SplitsIrrevocableWitness ==
    /\ last.op = "learn"
    /\ last.attempt = "split"
    /\ last.path # << >>
    /\ tree_root[<< >>].kind = "split"
    /\ tree_root[last.path].kind = "split"

\* every branch of a multi-way test has its child
BranchesHaveChildren(t) ==
    \A p \in Splits(t) :
        \A i \in 1..Len(t[p].split_test.branch_mapping) : Append(p, i - 1) \in DOMAIN t

\* q holds the same node in t and u, but for the active flag of a leaf the
\* collaborator deactivated
SameButEvicted(t, u, q, evicted) ==
    \/ u[q] = t[q]
    \/ /\ t[q].uid \in evicted
       /\ u[q] = [t[q] EXCEPT !.is_active = FALSE]

\* C5: a learn call whose routing ends at a multi-way split node with no branch
\* for the example's value does not fail; it appends one branch for that value
\* with one fresh active leaf that has learned this example only; activeLeaves
\* grows by one and decisionNodes stays; every other node and branch stays as it
\* is; a predict for an example with that value that was stopped at the split
\* node now reaches the new leaf, and every branch of a multi-way test keeps
\* having a child to route to.
UnseenValueAddsBranch ==
    [][/\ BranchesHaveChildren(tree_root')
       /\ (last'.op = "learn" /\ last'.found = "split")
          => LET p == last'.path
                 old == tree_root[p].split_test.branch_mapping
                 new == tree_root'[p].split_test.branch_mapping
                 leaf == Append(p, Len(old))
             IN /\ ~last'.raised
                /\ last'.route = "new_branch"
                /\ Len(new) = Len(old) + 1
                /\ IsPrefix(old, new)
                /\ \A i \in 1..Len(old) : old[i] # new[Len(new)]
                /\ DOMAIN tree_root' = (DOMAIN tree_root) \cup {leaf}
                /\ leaf \notin DOMAIN tree_root
                /\ tree_root'[leaf].kind = "leaf"
                /\ tree_root'[leaf].depth = tree_root[p].depth + 1
                /\ tree_root'[leaf].stats = (last'.y :> last'.w)
                /\ (tree_root'[leaf].is_active \/ tree_root'[leaf].uid \in last'.evicted)
                /\ \A q \in DOMAIN tree_root : tree_root'[leaf].uid # tree_root[q].uid
                /\ tree_root'[p] = [tree_root[p] EXCEPT !.split_test.branch_mapping = new]
                /\ \A q \in (DOMAIN tree_root) \ {p} :
                      SameButEvicted(tree_root, tree_root', q, last'.evicted)
                /\ n_active_leaves' = n_active_leaves + 1 - EvictedCount(last')
                /\ n_inactive_leaves' = n_inactive_leaves + EvictedCount(last')
                /\ n_decision_nodes' = n_decision_nodes
                /\ \A x \in Examples :
                      (/\ FilterInstanceToLeaf(tree_root, x) = [node |-> "split", path |-> p]
                       /\ x[tree_root[p].split_test.att] = new[Len(new)])
                      => /\ PredictNode([tree_root |-> tree_root'], x) = leaf
                         /\ BranchForInstance(tree_root'[p].split_test, x) = Len(old)]_vars

\* a learn call has just added a third branch to a multi-way split node
UnseenValueWitness ==
    /\ last.op = "learn"
    /\ last.route = "new_branch"
    /\ Len(tree_root[last.path].split_test.branch_mapping) = 3
    /\ Append(last.path, 2) \in Leaves(tree_root)

RECURSIVE FracSum(_, _)
FracSum(proba, S) ==
    IF S = {} THEN [num |-> 0, den |-> 1]
    ELSE LET c == CHOOSE z \in S : TRUE
             rest == FracSum(proba, S \ {c})
         IN [num |-> proba[c].num * rest.den + rest.num * proba[c].den,
             den |-> proba[c].den * rest.den]

SumsToOne(proba) == FracSum(proba, DOMAIN proba).num = FracSum(proba, DOMAIN proba).den

NonNegative(proba) == \A c \in DOMAIN proba : proba[c].num >= 0 /\ proba[c].den > 0

\* C6 as claimed: every predict call, before any example has been learned as
\* well as after, returns a distribution keyed by exactly the observed classes,
\* non-negative and summing to 1.
PredictAlwaysNormalized ==
    last.op = "predict"
    => /\ DOMAIN last.proba = classes
       /\ NonNegative(last.proba)
       /\ SumsToOne(last.proba)

\* C6 as amended: the distribution predict returns is keyed by exactly the
\* observed classes and is non-negative; it sums to 1 once an example has been
\* learned (a root exists), and before that it is the empty distribution.
PredictNormalizedOnceLearned ==
    last.op = "predict"
    => /\ DOMAIN last.proba = classes
       /\ NonNegative(last.proba)
       /\ (tree_root # EmptyTree => SumsToOne(last.proba))
       /\ (tree_root = EmptyTree => last.proba = << >> /\ classes = {})

\* a predict answered by a leaf that has not seen every observed class
PredictNormalizedWitness ==
    /\ last.op = "predict"
    /\ Cardinality(classes) = 2
    /\ last.reached \in Leaves(tree_root)
    /\ DOMAIN tree_root[last.reached].stats # classes

\* C7 as claimed: a learn call never raises an error.
LearnNeverRaises == last.op = "learn" => ~last.raised

\* the weight seen passed or reached a further multiple of the period in the last call
CrossedMultiple ==
    train_weight_seen_by_model \div cfg.memory_estimate_period
        > (train_weight_seen_by_model - last.w) \div cfg.memory_estimate_period

\* C8 as claimed: learn invokes the size/memory collaborator exactly in the calls
\* in which the weight seen reaches or passes a further multiple of
\* memory_estimate_period.
CollaboratorEveryPeriod ==
    last.op = "learn" => ((last.estimated \/ last.enforced) <=> CrossedMultiple)

\* C8 as amended: learn invokes the size estimate only at the end of a call after
\* which the weight seen is an exact multiple of memory_estimate_period, and every
\* call that returns on such a weight invokes it; and it invokes the size
\* enforcement inside the call exactly when the split attempt executed a split or
\* a pre-prune, whatever the weight seen.
CollaboratorOnExactMultipleOrSplit ==
    last.op = "learn"
    => /\ last.estimated
            => train_weight_seen_by_model % cfg.memory_estimate_period = 0
       /\ (~last.raised
             /\ train_weight_seen_by_model % cfg.memory_estimate_period = 0)
            => last.estimated
       /\ last.enforced <=> last.attempt \in {"split", "preprune"}

\* the weight seen passed a multiple without landing on it, and the collaborator
\* was invoked all the same, after a split
CollaboratorWitness ==
    /\ last.op = "learn"
    /\ CrossedMultiple
    /\ train_weight_seen_by_model % cfg.memory_estimate_period # 0
    /\ ~last.estimated
    /\ last.enforced

\* C9: after construction and after any assignment the stored split criterion is
\* one of gini, info_gain, hellinger and the stored leaf prediction one of mc,
\* nb, nba; an unrecognized value does not fail and stores info_gain
\* (respectively nba), a recognized value is stored as given.
SoftCorrection ==
    status = "ready"
    => /\ split_criterion \in {"gini", "info_gain", "hellinger"}
       /\ leaf_prediction \in {"mc", "nb", "nba"}
       /\ last.op = "set_split_criterion"
            => /\ ~last.raised
               /\ split_criterion = (IF last.arg \in {"gini", "info_gain", "hellinger"}
                                     THEN last.arg ELSE "info_gain")
       /\ last.op = "set_leaf_prediction"
            => /\ ~last.raised
               /\ leaf_prediction = (IF last.arg \in {"mc", "nb", "nba"}
                                     THEN last.arg ELSE "nba")
       /\ last.op = "construct"
            => /\ split_criterion = (IF last.arg[1] \in {"gini", "info_gain", "hellinger"}
                                     THEN last.arg[1] ELSE "info_gain")
               /\ leaf_prediction = (IF last.arg[2] \in {"mc", "nb", "nba"}
                                     THEN last.arg[2] ELSE "nba")

\* an unrecognized split criterion has just been assigned over a recognized one
SoftCorrectionWitness ==
    /\ status = "ready"
    /\ last.op = "set_split_criterion"
    /\ last.arg = "entropy"
    /\ split_criterion = "info_gain"
    /\ leaf_prediction = "mc"

\* C10: a constructor call with an attribute observer outside bst, gaussian,
\* histogram raises and leaves no model to call, whatever the other options; one
\* with an observer inside the set succeeds, with no class and no root.
ConstructionChecksObserver ==
    /\ last.op = "construct"
         => IF last.arg[3] \in {"bst", "gaussian", "histogram"}
            THEN /\ status = "ready"
                 /\ ~last.raised
                 /\ attribute_observer = last.arg[3]
                 /\ classes = {}
                 /\ tree_root = EmptyTree
            ELSE /\ status = "failed"
                 /\ last.raised
    /\ status = "failed" => ~ENABLED NextConfig /\ ~ENABLED Next

\* construction has just failed on the observer alone
ConstructionWitness ==
    /\ status = "failed"
    /\ last.op = "construct"
    /\ last.arg = <<"gini", "mc", "e-bst">>

---------------------------------------------------------------------------
(* Properties of the split attempt *)

\* the decision as the claim words it: one candidate, or two or more with the
\* best merit ahead of the second-best by more than epsilon, or epsilon below
\* the tie threshold
ClaimedDecision(cands, epsilon) ==
    LET n == Len(cands) IN
    IF n = 0 THEN FALSE
    ELSE IF n = 1 THEN TRUE
    ELSE \E i \in 1..n : \E j \in (1..n) \ {i} :
            /\ \A k \in 1..n : cands[k].merit <= cands[i].merit
            /\ \A k \in (1..n) \ {i} : cands[k].merit <= cands[j].merit
            /\ \/ cands[i].merit - cands[j].merit > epsilon
               \/ epsilon < cfg.tie_threshold

\* C11: on a leaf that is not pure, the decision of the split attempt
\* (should_split) is positive exactly when the candidate list has one entry, or
\* has two or more and the best merit exceeds the second-best by more than
\* epsilon or epsilon is below the tie threshold; it is negative on an empty
\* list.  A split or a pre-prune only follows a positive decision, and a leaf
\* left as it is a negative one.
SplitDecisionRule ==
    (/\ last.op = "attempt"
     /\ ~ObservedClassDistributionIsPure(tree_root[last.path]))
    => /\ last.should_split <=> ClaimedDecision(last.cands, last.hoeffding_bound)
       /\ last.attempt \in {"split", "preprune"} => last.should_split
       /\ last.attempt = "no_split" => ~last.should_split

\* three candidates, the two best tied, and the split forced by the tie threshold
SplitDecisionWitness ==
    /\ last.op = "attempt"
    /\ Len(last.cands) = 3
    /\ \E i, j \in 1..3 : i # j /\ last.cands[i].merit = 2 /\ last.cands[j].merit = 2
    /\ last.hoeffding_bound < cfg.tie_threshold
    /\ last.should_split
    /\ last.attempt = "split"

\* the split of the leaf at p on candidate c, between the trees t and u
SplitInstalled(t, u, p, c, evicted) ==
    LET k == Len(c.resulting_class_distributions)
        children == {Append(p, b) : b \in 0..(k - 1)}
    IN /\ u[p].kind = "split"
       /\ u[p].depth = t[p].depth
       /\ u[p].stats = t[p].stats
       /\ u[p].split_test = c.split_test
       /\ DOMAIN u = (DOMAIN t) \cup children
       /\ children \cap DOMAIN t = {}
       /\ {q \in DOMAIN u : Len(q) = Len(p) + 1 /\ SubSeq(q, 1, Len(p)) = p} = children
       /\ \A q \in children :
             /\ u[q].kind = "leaf"
             /\ u[q].depth = t[p].depth + 1
             /\ u[q].stats = c.resulting_class_distributions[q[Len(q)] + 1]
             /\ u[q].is_active \/ u[q].uid \in evicted
             /\ u[q].disabled = {}
       /\ \A q \in children \cup {p} :
             /\ \A r \in DOMAIN t : u[q].uid # t[r].uid
             /\ \A r \in (children \cup {p}) \ {q} : u[q].uid # u[r].uid
       /\ \A q \in DOMAIN u : u[q].uid # t[p].uid
       /\ \A q \in (DOMAIN t) \ {p} : SameButEvicted(t, u, q, evicted)

\* C12: an executed split on a real test with k branches puts, at the position
\* of the leaf L (root, or the same branch of the same parent), a split node at
\* L's depth with the chosen test and L's statistics, and under it k fresh
\* active leaves at branches 0..k-1, one level deeper, each with the statistics
\* of its branch; L is in the tree no more, activeLeaves grows by k-1,
\* decisionNodes by 1, and every other node stays as it is.  Leaves the size
\* collaborator deactivates in the same call are counted apart.
SplitReplacesLeaf ==
    [][(last'.op = "attempt" /\ last'.attempt = "split")
       => \E i \in DOMAIN last'.cands :
             LET c == last'.cands[i]
                 k == Len(c.resulting_class_distributions)
             IN /\ c.split_test # NoTest
                /\ \A j \in DOMAIN last'.cands : last'.cands[j].merit <= c.merit
                /\ tree_root[last'.path].kind = "leaf"
                /\ SplitInstalled(tree_root, tree_root', last'.path, c, last'.evicted)
                /\ n_active_leaves' = n_active_leaves + k - 1 - EvictedCount(last')
                /\ n_inactive_leaves' = n_inactive_leaves + EvictedCount(last')
                /\ n_decision_nodes' = n_decision_nodes + 1]_vars

\* a leaf below the root has just been split on the nominal attribute
SplitReplacesLeafWitness ==
    /\ last.op = "attempt"
    /\ last.attempt = "split"
    /\ last.path = <<0>>
    /\ tree_root[<<0>>].split_test.kind = "nominal_multiway"
    /\ tree_root[<< >>].kind = "split"
    /\ <<0, 1>> \in ActiveLeaves(tree_root)

\* the best-ranked candidate as the ranking is specified: of maximal merit, and
\* the last of those in the order the leaf gave
BestRanked(cands) ==
    CHOOSE i \in DOMAIN cands :
        /\ \A j \in DOMAIN cands : cands[j].merit <= cands[i].merit
        /\ \A j \in DOMAIN cands : j > i => cands[j].merit < cands[i].merit

\* the leaf at p was deactivated in place between the trees t and u
DeactivatedInPlace(t, u, p, evicted) ==
    /\ DOMAIN u = DOMAIN t
    /\ u[p] = [t[p] EXCEPT !.is_active = FALSE]
    /\ \A q \in (DOMAIN t) \ {p} : SameButEvicted(t, u, q, evicted)

\* C13 as claimed: when the decision is positive and the best-ranked suggestion
\* is the null suggestion, the leaf is deactivated in place (activeLeaves -1,
\* inactiveLeaves +1), no node is created, and decisionNodes, the set of nodes
\* and every link stay as they are.  Leaves the size collaborator deactivates in
\* the same call are counted apart.
PrePruneDeactivatesInPlace ==
    [][(/\ last'.op = "attempt"
        /\ last'.should_split
        /\ last'.cands[BestRanked(last'.cands)].split_test = NoTest)
       => /\ DeactivatedInPlace(tree_root, tree_root', last'.path, last'.evicted)
          /\ n_active_leaves' = n_active_leaves - 1 - EvictedCount(last')
          /\ n_inactive_leaves' = n_inactive_leaves + 1 + EvictedCount(last')
          /\ n_decision_nodes' = n_decision_nodes
          /\ next_uid' = next_uid]_vars

\* the attributes the claim says are disabled: those of the single-attribute
\* candidates whose merit trails the best merit by more than epsilon
ClaimedPoorAttributes(cands, epsilon) ==
    IF cfg.remove_poor_attrs /\ Len(cands) >= 2
    THEN {cands[i].split_test.att :
            i \in {j \in DOMAIN cands :
                     /\ cands[j].split_test # NoTest
                     /\ cands[BestRanked(cands)].merit - cands[j].merit > epsilon}}
    ELSE {}

\* C15 as claimed: a split attempt on a leaf that is not pure disables on that
\* leaf exactly the attributes of the single-attribute candidates whose merit
\* trails the best by more than epsilon, when remove_poor_attrs is enabled and
\* there are two or more candidates, whether or not it splits; the null
\* suggestion disables nothing; otherwise no attribute is disabled.  (A leaf that
\* was split is no longer there to be looked at.)
DisablesExactlyPoorAttributes ==
    [][(/\ last'.op = "attempt"
        /\ last'.attempt # "pure"
        /\ tree_root'[last'.path].kind = "leaf")
       => tree_root'[last'.path].disabled
            = tree_root[last'.path].disabled
                \cup ClaimedPoorAttributes(last'.cands, last'.hoeffding_bound)]_vars

\* C16 as claimed: the ranking is a stable ascending sort by merit and the
\* suggestion acted on is the last after sorting, that is, of the candidates of
\* maximal merit the one that comes last in the leaf's order: when the decision
\* is positive and that candidate is the null suggestion the leaf is pre-pruned,
\* and when it is a real split the leaf is split on its test.
LastOfBestIsChosen ==
    (last.op = "attempt" /\ last.should_split)
    => LET c == last.cands[BestRanked(last.cands)]
       IN IF c.split_test = NoTest
          THEN /\ last.attempt = "preprune"
               /\ tree_root[last.path].kind = "leaf"
               /\ ~tree_root[last.path].is_active
          ELSE /\ last.attempt = "split"
               /\ tree_root[last.path].kind = "split"
               /\ tree_root[last.path].split_test = c.split_test

---------------------------------------------------------------------------
(* Properties of learn_one and predict_proba_one, continued *)

\* the leaf a learn call is routed to, as it was before the call; a root the
\* call creates was not there and starts empty
LeafBefore(t, p) == IF p \in DOMAIN t THEN t[p] ELSE NewLearningNode(0, EmptyStats, NoNode)

\* C14 as claimed: a learn call makes a split attempt only if the leaf is
\* active, growth is enabled, the leaf's depth is below max_depth and the weight
\* the leaf has seen since its last attempt is at least grace_period; and after
\* every attempt that leaves the leaf in the tree, whatever its outcome, the
\* leaf's last_split_attempt_at is its total weight at the attempt.
GraceSeparatesAttempts ==
    [][(last'.op = "learn" /\ last'.attempt # "none")
       => LET leaf == LeafBefore(tree_root, last'.path)
              weight_seen == TotalWeight(leaf) + last'.w
          IN /\ leaf.is_active
             /\ growth_allowed
             /\ \A m \in cfg.max_depth : leaf.depth < m
             /\ weight_seen - leaf.last_split_attempt_at >= cfg.grace_period
             /\ tree_root'[last'.path].kind = "leaf"
                  => tree_root'[last'.path].last_split_attempt_at = weight_seen]_vars

\* the class statistics after an example of class y and weight w was added
StatsPlus(stats, y, w) ==
    [c \in (DOMAIN stats) \cup {y} |->
        (IF c \in DOMAIN stats THEN stats[c] ELSE 0) + (IF c = y THEN w ELSE 0)]

\* C17: a learn call routed to an inactive leaf adds the example to that leaf's
\* statistics and does nothing else to it: no split attempt, no deactivation,
\* no node created, no counter moved; and no learn or predict call turns an
\* inactive leaf into an active one, or into anything else.  Leaves the size
\* collaborator deactivates in the same call are counted apart.
InactiveLeafOnlyLearns ==
    [][/\ (/\ last'.op = "learn"
           /\ last'.found = "leaf"
           /\ last'.path \in DOMAIN tree_root
           /\ ~tree_root[last'.path].is_active)
          => /\ tree_root'[last'.path]
                  = [tree_root[last'.path] EXCEPT
                        !.stats = StatsPlus(@, last'.y, last'.w)]
             /\ last'.attempt = "none"
             /\ ~last'.capped
             /\ DOMAIN tree_root' = DOMAIN tree_root
             /\ n_active_leaves' = n_active_leaves - EvictedCount(last')
             /\ n_inactive_leaves' = n_inactive_leaves + EvictedCount(last')
             /\ n_decision_nodes' = n_decision_nodes
       /\ \A p \in Leaves(tree_root) :
             ~tree_root[p].is_active
             => /\ p \in Leaves(tree_root')
                /\ tree_root'[p].uid = tree_root[p].uid
                /\ ~tree_root'[p].is_active]_vars

\* a learn call has just been routed to a leaf that was inactive already and
\* has seen grace_period of weight since its last attempt
InactiveLeafWitness ==
    /\ last.op = "learn"
    /\ last.route = "leaf"
    /\ ~last.capped
    /\ last.attempt = "none"
    /\ growth_allowed
    /\ ~tree_root[last.path].is_active
    /\ tree_root[last.path].uid \notin last.evicted
    /\ TotalWeight(tree_root[last.path]) - tree_root[last.path].last_split_attempt_at
          >= cfg.grace_period

\* C18: the root has depth 0 and every child the depth of its parent plus one;
\* under a finite max_depth every split node has depth < max_depth and every
\* leaf depth <= max_depth, whether the leaf was created by a split or on demand
\* under a split node.
DepthsWithinCap ==
    /\ tree_root # EmptyTree => tree_root[<< >>].depth = 0
    /\ \A p \in (DOMAIN tree_root) \ {<< >>} :
          /\ Parent(p) \in Splits(tree_root)
          /\ tree_root[p].depth = tree_root[Parent(p)].depth + 1
    /\ \A m \in cfg.max_depth :
          /\ \A p \in Splits(tree_root) : tree_root[p].depth < m
          /\ \A p \in Leaves(tree_root) : tree_root[p].depth <= m

\* a split node one level above the cap has just got a leaf on demand, which
\* sits at the cap
DepthsWithinCapWitness ==
    /\ last.op = "learn"
    /\ last.route = "new_branch"
    /\ growth_allowed
    /\ \E m \in cfg.max_depth :
          /\ tree_root[last.path].depth = m - 1
          /\ \E p \in Leaves(tree_root) :
                Parent(p) = last.path /\ p[Len(p)] = 2 /\ tree_root[p].depth = m

\* where the routing of x ends in the tree t: the node reached by following,
\* from the root, the branch of x at every split node, until a leaf is reached
\* or the split node has no branch or no child for x
RoutingEnd(t, x) ==
    CHOOSE p \in DOMAIN t :
        /\ \A k \in 0..(Len(p) - 1) :
              /\ t[SubSeq(p, 1, k)].kind = "split"
              /\ BranchForInstance(t[SubSeq(p, 1, k)].split_test, x) = p[k + 1]
        /\ \/ t[p].kind = "leaf"
           \/ Append(p, BranchForInstance(t[p].split_test, x)) \notin DOMAIN t

\* the distribution built from the evidence: zero for the classes the evidence
\* does not have, then normalised
BuiltFrom(cls, evidence) ==
    Softmax([c \in cls \cup DOMAIN evidence |->
                IF c \in DOMAIN evidence THEN evidence[c] ELSE 0])

\* C19: for every example, predict takes its evidence from the node the routing
\* of the example ends at: a leaf's predicted distribution when it ends at a
\* leaf, and the class statistics of the split node when no branch of that
\* split node matches the example; the predict call just made returned such a
\* result and raised nothing.
PredictFromReachedNode ==
    /\ tree_root # EmptyTree
         => \A x \in Examples :
               LET node == tree_root[RoutingEnd(tree_root, x)]
               IN /\ PredictNode(Cur, x) = RoutingEnd(tree_root, x)
                  /\ PredictProbaOne(Cur, x)
                       = BuiltFrom(classes, IF node.kind = "leaf"
                                            THEN LeafPredictOne(node) ELSE node.stats)
    /\ last.op = "predict"
         => /\ ~last.raised
            /\ \E x \in Examples :
                  /\ last.proba = PredictProbaOne(Cur, x)
                  /\ tree_root # EmptyTree => last.reached = RoutingEnd(tree_root, x)

\* a predict has just been answered from a split node below which a leaf has
\* seen other evidence than the split node
PredictFromReachedNodeWitness ==
    /\ last.op = "predict"
    /\ last.reached \in Splits(tree_root)
    /\ last.proba = BuiltFrom(classes, tree_root[last.reached].stats)
    /\ \E p \in Leaves(tree_root) :
          /\ Parent(p) = last.reached
          /\ BuiltFrom(classes, tree_root[p].stats) # last.proba

\* C20: a predict call changes nothing of the model: not the root, a node, a
\* branch, a leaf's statistics or active flag, not a counter, the weight seen or
\* the class set; it creates no root, no branch and no leaf.
PredictIsReadOnly ==
    [][last'.op = "predict"
       => /\ tree_root' = tree_root
          /\ classes' = classes
          /\ train_weight_seen_by_model' = train_weight_seen_by_model
          /\ n_active_leaves' = n_active_leaves
          /\ n_inactive_leaves' = n_inactive_leaves
          /\ n_decision_nodes' = n_decision_nodes
          /\ growth_allowed' = growth_allowed
          /\ next_uid' = next_uid
          /\ UNCHANGED configVars]_vars

\* a predict for a value a multi-way split node has no branch for has just
\* returned, and the split node still has its two branches
PredictIsReadOnlyWitness ==
    /\ last.op = "predict"
    /\ last.reached \in Splits(tree_root)
    /\ tree_root[last.reached].split_test.kind = "nominal_multiway"
    /\ Len(tree_root[last.reached].split_test.branch_mapping) = 2
    /\ n_active_leaves + n_inactive_leaves = 2

====
